---- MODULE Spec2Model ----
(***************************************************************************)
(* Model of ukis, the "Unnamed Kitchen Inventory System" REST API          *)
(* (src/src/main.rs).  The program is 24 poem-openapi handlers of the      *)
(* struct UkisApi, four per entity (fetch all, fetch by id, create new,    *)
(* delete with id), each of which sends one SQL statement to a shared      *)
(* PgPool, awaits its result and maps it to an HTTP response.              *)
(*                                                                         *)
(* State: the six tables the statements name, the id sequence of each      *)
(* table, and one slot per client connection holding the request being     *)
(* served, the sqlx result and the response.  A request is served in two   *)
(* steps: Call (the request arrives and the handler is entered; the        *)
(* statement has not run yet) and the handler's own action (the database   *)
(* runs the statement atomically and the handler maps the result).         *)
(* Requests on different connections interleave between the two steps.     *)
(*                                                                         *)
(* Values: f32 fields are drawn from a few integers (negative, zero and    *)
(* positive); strings and dates from a few literals.  Option<T> is a       *)
(* sequence of length 0 (None) or 1 (Some).                                *)
(***************************************************************************)
EXTENDS Integers, Sequences, FiniteSets, TLC

\* Largest value the id sequence (SERIAL) of a table hands out.
MaxId == 2
\* Number of requests the clients issue in one run.
MaxRequests == 2

\* Client connections that are served concurrently.
Tasks == {"c1", "c2"}

None == << >>
Some(x) == << x >>

\* The tables named by the SQL statements of the handlers.
Entities == {"products", "units", "unit_conversions", "places", "spaces", "stock_items"}

\* Path<i32> ids the clients ask for.
Ids == 1..MaxId

VARIABLES
    tables,   \* tables[e]: the set of rows of table e
    seq,      \* seq[e]: the last id the sequence of table e handed out
    task,     \* task[t]: [pc, req, res, resp] of connection t
    issued    \* number of requests issued so far

vars == << tables, seq, task, issued >>

----------------------------------------------------------------------------
(* Request bodies: the Json<T> argument of the create handlers.  The id of  *)
(* a body is the struct's id field (read_only in the schema, an i64).       *)

ProductBodies ==
    << [id |-> 0, name |-> "eggs", description |-> None, parent_product_id |-> None,
       purchase_unit_id |-> Some(1), stock_unit_id |-> Some(2),
       purchase_to_stock_factor |-> Some(12)],
      [id |-> 1, name |-> "", description |-> Some("x"), parent_product_id |-> Some(2),
       purchase_unit_id |-> None, stock_unit_id |-> Some(1),
       purchase_to_stock_factor |-> Some(-1)] >>

UnitBodies ==
    << [id |-> 0, singular |-> "gram", plural |-> Some("grams")],
      [id |-> 1, singular |-> "", plural |-> None] >>

UnitConversionBodies ==
    << [id |-> 0, from_unit_id |-> 1, to_unit_id |-> 2, factor |-> Some(12)],
      [id |-> 1, from_unit_id |-> 2, to_unit_id |-> 2, factor |-> Some(0)] >>

PlaceBodies ==
    << [id |-> 0, name |-> "market", description |-> None],
      [id |-> 1, name |-> "", description |-> Some("x")] >>

SpaceBodies ==
    << [id |-> 0, name |-> "fridge", description |-> None],
      [id |-> 1, name |-> "", description |-> Some("x")] >>

StockItemBodies ==
    << [id |-> 0, product_id |-> 1, space_id |-> 1, stock_quantity |-> 5,
       best_by_date |-> None],
      [id |-> 1, product_id |-> 2, space_id |-> 1, stock_quantity |-> -1,
       best_by_date |-> None],
      [id |-> 0, product_id |-> 1, space_id |-> 2, stock_quantity |-> 0,
       best_by_date |-> Some("2024-06-01")] >>

\* The sample bodies of entity e, in a fixed order.
BodySeq(e) ==
    CASE e = "products" -> ProductBodies
      [] e = "units" -> UnitBodies
      [] e = "unit_conversions" -> UnitConversionBodies
      [] e = "places" -> PlaceBodies
      [] e = "spaces" -> SpaceBodies
      [] e = "stock_items" -> StockItemBodies

Bodies(e) == { BodySeq(e)[i] : i \in 1..Len(BodySeq(e)) }

\* Handler names by entity: fetch all, fetch by id, create new, delete with id.
GetAllOp ==
    [products |-> "get_products", units |-> "get_units",
     unit_conversions |-> "get_unit_conversions", places |-> "get_places",
     spaces |-> "get_spaces", stock_items |-> "get_stock_items"]
GetOp ==
    [products |-> "get_product", units |-> "get_unit",
     unit_conversions |-> "get_unit_conversion", places |-> "get_place",
     spaces |-> "get_space", stock_items |-> "get_stock_item"]
NewOp ==
    [products |-> "new_product", units |-> "new_unit",
     unit_conversions |-> "new_unit_conversion", places |-> "new_place",
     spaces |-> "new_space", stock_items |-> "new_stock_item"]
DeleteOp ==
    [products |-> "delete_product", units |-> "delete_unit",
     unit_conversions |-> "delete_unit_conversion", places |-> "delete_place",
     spaces |-> "delete_space", stock_items |-> "delete_stock_item"]

\* The requests the routes accept: [op, e, id, body].
Requests ==
    UNION { { [op |-> GetAllOp[e], e |-> e, id |-> 0, body |-> None] }
            \cup { [op |-> GetOp[e], e |-> e, id |-> i, body |-> None] : i \in Ids }
            \cup { [op |-> NewOp[e], e |-> e, id |-> 0, body |-> Some(b)] : b \in Bodies(e) }
            \cup { [op |-> DeleteOp[e], e |-> e, id |-> i, body |-> None] : i \in Ids }
          : e \in Entities }

NoReq == [op |-> "none", e |-> "none", id |-> 0, body |-> None]

----------------------------------------------------------------------------
(* Responses.  status 0 stands for "no response was written".               *)

NoResp == [status |-> 0, vec |-> << >>, item |-> None, id |-> None, text |-> None]

\* GetAllResponse<T> = Json<Vec<T>>
JsonVec(v) == [status |-> 200, vec |-> v, item |-> None, id |-> None, text |-> None]
\* GetResponse::Success(Json<T>)
GetSuccess(r) == [status |-> 200, vec |-> << >>, item |-> Some(r), id |-> None, text |-> None]
\* GetResponse::NotFound / DeleteResponse::NotFound (PlainText)
NotFound(noun, id) ==
    [status |-> 404, vec |-> << >>, item |-> None, id |-> None, text |-> Some(<< noun, id >>)]
\* Json<i32> of the create handlers and DeleteResponse::Success(Json<i32>)
JsonId(id) == [status |-> 200, vec |-> << >>, item |-> None, id |-> Some(id), text |-> None]
\* poem::error::InternalServerError
InternalServerError ==
    [status |-> 500, vec |-> << >>, item |-> None, id |-> None, text |-> None]

----------------------------------------------------------------------------
(* The SQL statements.                                                      *)

\* fetch_all returns the rows in an order the statement does not fix.
Vecs(S) == { v \in [1..Cardinality(S) -> S] : { v[i] : i \in 1..Cardinality(S) } = S }

\* fetch_optional: the first row of the result, if there is one.
FetchOptional(rows) == IF rows = {} THEN None ELSE Some(CHOOSE r \in rows : TRUE)

\* SELECT * FROM e with a LIMIT 1.
SelectAll_Limit1(e) == IF tables[e] = {} THEN { << >> } ELSE { << r >> : r \in tables[e] }

\* SELECT * FROM e
SelectAll(e) == Vecs(tables[e])

\* SELECT * FROM e without the WHERE clause.
SelectById_NoWhere(e, id) == tables[e]

\* SELECT * FROM e WHERE id = $1
SelectById(e, id) == { r \in tables[e] : r.id = id }

\* DELETE FROM e without the WHERE clause.
DeleteById_NoWhere(e, id) == {}

\* DELETE FROM e WHERE id = $1: the rows that remain
DeleteById(e, id) == { r \in tables[e] : r.id # id }

\* DELETE FROM e WHERE id = $1 RETURNING id: the ids of the rows removed
DeleteReturning(e, id) == { r.id : r \in { x \in tables[e] : x.id = id } }

\* The id the sequence of table e hands to an INSERT that names no id.
nextval(e) == seq[e] + 1

\* The row that the INSERT of new_product stores under id: the columns it names, from the body.
ProductRecord(id, product) ==
    [id |-> id,
     name |-> product.name,
     description |-> product.description,
     parent_product_id |-> product.parent_product_id,
     purchase_unit_id |-> product.purchase_unit_id,
     stock_unit_id |-> product.stock_unit_id,
     purchase_to_stock_factor |-> product.purchase_to_stock_factor]

\* The row that the INSERT of new_unit stores under id: the columns it names, from the body.
UnitRecord(id, unit) ==
    [id |-> id,
     singular |-> unit.singular,
     plural |-> unit.plural]

\* The row that the INSERT of new_unit_conversion stores under id: the columns it names, from the body.
UnitConversionRecord(id, conversion) ==
    [id |-> id,
     from_unit_id |-> conversion.from_unit_id,
     to_unit_id |-> conversion.to_unit_id,
     factor |-> conversion.factor]

\* The row that the INSERT of new_place stores under id: the columns it names, from the body.
PlaceRecord(id, place) ==
    [id |-> id,
     name |-> place.name,
     description |-> place.description]

\* The row that the INSERT of new_space stores under id: the columns it names, from the body.
SpaceRecord(id, space) ==
    [id |-> id,
     name |-> space.name,
     description |-> space.description]

\* new_stock_item's INSERT does not name best_by_date: the column keeps its
\* default, NULL (the struct reads it as Option<NaiveDate>).
best_by_date_default == None

\* The INSERT of new_stock_item with space_id bound to $3, the stock quantity.
StockItemRecord_WrongBind(id, item) ==
    [id |-> id,
     product_id |-> item.product_id,
     space_id |-> item.space_id,
     stock_quantity |-> item.space_id,
     best_by_date |-> best_by_date_default]

\* The row that the INSERT of new_stock_item stores under id: the columns it names, from the body.
StockItemRecord(id, item) ==
    [id |-> id,
     product_id |-> item.product_id,
     space_id |-> item.space_id,
     stock_quantity |-> item.stock_quantity,
     best_by_date |-> best_by_date_default]

\* The row of table e that a create request with body b stores under id.
Record(e, id, b) ==
    CASE e = "products" -> ProductRecord(id, b)
      [] e = "units" -> UnitRecord(id, b)
      [] e = "unit_conversions" -> UnitConversionRecord(id, b)
      [] e = "places" -> PlaceRecord(id, b)
      [] e = "spaces" -> SpaceRecord(id, b)
      [] e = "stock_items" -> StockItemRecord(id, b)

\* The database the server connects to holds the rows of earlier runs: n rows
\* per table, created through the API with ids 1..n (main connects to an
\* existing database; it creates no table and deletes no row).
Database(n) ==
    [e \in Entities |->
        { Record(e, i, BodySeq(e)[((i - 1) % Len(BodySeq(e))) + 1]) : i \in 1..n }]

----------------------------------------------------------------------------
(* Steps shared by the handlers.                                            *)

Pending(t, op) == task[t].pc = "pending" /\ task[t].req.op = op

\* The handler returns response r; res is the sqlx result ("Ok" or "Err").
Return(t, res, r) ==
    task' = [task EXCEPT ![t] = [pc |-> "done", req |-> @.req, res |-> res, resp |-> r]]

\* .unwrap() on Err: the handler's future panics and no response is written.
Panic(t) ==
    task' = [task EXCEPT ![t] = [pc |-> "panicked", req |-> @.req, res |-> "Err",
                                 resp |-> NoResp]]

\* A failed INSERT stores nothing.
FailedInsert(e) == UNCHANGED << tables, seq >>

Init ==
    /\ \E n \in {0, 1} :
          /\ tables = Database(n)
          /\ seq = [e \in Entities |-> n]
    /\ task = [t \in Tasks |-> [pc |-> "idle", req |-> NoReq, res |-> "none", resp |-> NoResp]]
    /\ issued = 0

\* A request arrives on connection t and poem enters its handler.
Call(t) ==
    /\ task[t].pc \in {"idle", "done", "panicked"}
    /\ issued < MaxRequests
    /\ \E r \in Requests :
          task' = [task EXCEPT ![t] = [pc |-> "pending", req |-> r, res |-> "none",
                                       resp |-> NoResp]]
    /\ issued' = issued + 1
    /\ UNCHANGED << tables, seq >>

\* INSERT INTO e (...) VALUES (...) RETURNING id: the row gets the next id of
\* the table's sequence.
Insert(e, record) ==
    /\ tables' = [tables EXCEPT ![e] = @ \cup {record}]
    /\ seq' = [seq EXCEPT ![e] = record.id]

----------------------------------------------------------------------------
(* The handlers of UkisApi.                                                 *)

\* Products: Fetch all; the result is unwrapped.
get_products(t) ==
    /\ Pending(t, "get_products")
    /\ \E ok \in BOOLEAN :
          IF ok
            THEN \E v \in SelectAll("products") : Return(t, "Ok", JsonVec(v))
            ELSE Panic(t)
    /\ UNCHANGED << tables, seq, issued >>

\* Products: Fetch by id.
get_product(t) ==
    /\ Pending(t, "get_product")
    /\ LET id == task[t].req.id IN
       \E ok \in BOOLEAN :
          IF ok
            THEN LET result == FetchOptional(SelectById("products", id)) IN
                 IF result # None
                   THEN Return(t, "Ok", GetSuccess(result[1]))
                   ELSE Return(t, "Ok", NotFound("product", id))
            ELSE Return(t, "Err", InternalServerError)
    /\ UNCHANGED << tables, seq, issued >>

\* Products: Create new.
new_product(t) ==
    /\ Pending(t, "new_product")
    /\ LET product == task[t].req.body[1] IN
       \E ok \in BOOLEAN :
          IF ok /\ seq["products"] < MaxId
            THEN LET record == ProductRecord(nextval("products"), product) IN
                 /\ Insert("products", record)
                 /\ Return(t, "Ok", JsonId(record.id))
            ELSE /\ FailedInsert("products")
                 /\ Return(t, "Err", InternalServerError)
    /\ UNCHANGED issued

\* delete_product that also removes the stock items of the product.
delete_product_Cascade(t) ==
    /\ Pending(t, "delete_product")
    /\ LET id == task[t].req.id IN
       \E ok \in BOOLEAN :
          IF ok
            THEN LET result == FetchOptional(DeleteReturning("products", id)) IN
                 /\ tables' = [tables EXCEPT
                                  !["products"] = DeleteById("products", id),
                                  !["stock_items"] = { r \in @ : r.product_id # id }]
                 /\ IF result # None
                      THEN Return(t, "Ok", JsonId(id))
                      ELSE Return(t, "Ok", NotFound("product", id))
            ELSE /\ UNCHANGED tables
                 /\ Return(t, "Err", InternalServerError)
    /\ UNCHANGED << seq, issued >>

\* Products: Delete with id.
delete_product(t) ==
    /\ Pending(t, "delete_product")
    /\ LET id == task[t].req.id IN
       \E ok \in BOOLEAN :
          IF ok
            THEN LET result == FetchOptional(DeleteReturning("products", id)) IN
                 /\ tables' = [tables EXCEPT !["products"] = DeleteById("products", id)]
                 /\ IF result # None
                      THEN Return(t, "Ok", JsonId(id))
                      ELSE Return(t, "Ok", NotFound("product", id))
            ELSE /\ UNCHANGED tables
                 /\ Return(t, "Err", InternalServerError)
    /\ UNCHANGED << seq, issued >>

\* Units: Fetch all; the result is unwrapped.
get_units(t) ==
    /\ Pending(t, "get_units")
    /\ \E ok \in BOOLEAN :
          IF ok
            THEN \E v \in SelectAll("units") : Return(t, "Ok", JsonVec(v))
            ELSE Panic(t)
    /\ UNCHANGED << tables, seq, issued >>

\* Units: Fetch by id.
get_unit(t) ==
    /\ Pending(t, "get_unit")
    /\ LET id == task[t].req.id IN
       \E ok \in BOOLEAN :
          IF ok
            THEN LET result == FetchOptional(SelectById("units", id)) IN
                 IF result # None
                   THEN Return(t, "Ok", GetSuccess(result[1]))
                   ELSE Return(t, "Ok", NotFound("unit", id))
            ELSE Return(t, "Err", InternalServerError)
    /\ UNCHANGED << tables, seq, issued >>

\* Units: Create new.
new_unit(t) ==
    /\ Pending(t, "new_unit")
    /\ LET unit == task[t].req.body[1] IN
       \E ok \in BOOLEAN :
          IF ok /\ seq["units"] < MaxId
            THEN LET record == UnitRecord(nextval("units"), unit) IN
                 /\ Insert("units", record)
                 /\ Return(t, "Ok", JsonId(record.id))
            ELSE /\ FailedInsert("units")
                 /\ Return(t, "Err", InternalServerError)
    /\ UNCHANGED issued

\* Units: Delete with id.
delete_unit(t) ==
    /\ Pending(t, "delete_unit")
    /\ LET id == task[t].req.id IN
       \E ok \in BOOLEAN :
          IF ok
            THEN LET result == FetchOptional(DeleteReturning("units", id)) IN
                 /\ tables' = [tables EXCEPT !["units"] = DeleteById("units", id)]
                 /\ IF result # None
                      THEN Return(t, "Ok", JsonId(id))
                      ELSE Return(t, "Ok", NotFound("unit", id))
            ELSE /\ UNCHANGED tables
                 /\ Return(t, "Err", InternalServerError)
    /\ UNCHANGED << seq, issued >>

\* Unit Conversions: Fetch all; the result is unwrapped.
get_unit_conversions(t) ==
    /\ Pending(t, "get_unit_conversions")
    /\ \E ok \in BOOLEAN :
          IF ok
            THEN \E v \in SelectAll("unit_conversions") : Return(t, "Ok", JsonVec(v))
            ELSE Panic(t)
    /\ UNCHANGED << tables, seq, issued >>

\* Unit Conversions: Fetch by id.
get_unit_conversion(t) ==
    /\ Pending(t, "get_unit_conversion")
    /\ LET id == task[t].req.id IN
       \E ok \in BOOLEAN :
          IF ok
            THEN LET result == FetchOptional(SelectById("unit_conversions", id)) IN
                 IF result # None
                   THEN Return(t, "Ok", GetSuccess(result[1]))
                   ELSE Return(t, "Ok", NotFound("unit conversion", id))
            ELSE Return(t, "Err", InternalServerError)
    /\ UNCHANGED << tables, seq, issued >>

\* new_unit_conversion that returns the id of the body, not the id RETURNING gave.
new_unit_conversion_BodyId(t) ==
    /\ Pending(t, "new_unit_conversion")
    /\ LET conversion == task[t].req.body[1] IN
       \E ok \in BOOLEAN :
          IF ok /\ seq["unit_conversions"] < MaxId
            THEN LET record == UnitConversionRecord(nextval("unit_conversions"), conversion) IN
                 /\ Insert("unit_conversions", record)
                 /\ Return(t, "Ok", JsonId(conversion.id))
            ELSE /\ FailedInsert("unit_conversions")
                 /\ Return(t, "Err", InternalServerError)
    /\ UNCHANGED issued

\* Unit Conversions: Create new.
new_unit_conversion(t) ==
    /\ Pending(t, "new_unit_conversion")
    /\ LET conversion == task[t].req.body[1] IN
       \E ok \in BOOLEAN :
          IF ok /\ seq["unit_conversions"] < MaxId
            THEN LET record == UnitConversionRecord(nextval("unit_conversions"), conversion) IN
                 /\ Insert("unit_conversions", record)
                 /\ Return(t, "Ok", JsonId(record.id))
            ELSE /\ FailedInsert("unit_conversions")
                 /\ Return(t, "Err", InternalServerError)
    /\ UNCHANGED issued

\* Unit Conversions: Delete with id.
delete_unit_conversion(t) ==
    /\ Pending(t, "delete_unit_conversion")
    /\ LET id == task[t].req.id IN
       \E ok \in BOOLEAN :
          IF ok
            THEN LET result == FetchOptional(DeleteReturning("unit_conversions", id)) IN
                 /\ tables' = [tables EXCEPT !["unit_conversions"] = DeleteById("unit_conversions", id)]
                 /\ IF result # None
                      THEN Return(t, "Ok", JsonId(id))
                      ELSE Return(t, "Ok", NotFound("unit conversion", id))
            ELSE /\ UNCHANGED tables
                 /\ Return(t, "Err", InternalServerError)
    /\ UNCHANGED << seq, issued >>

\* Places: Fetch all; an error is mapped to InternalServerError.
get_places(t) ==
    /\ Pending(t, "get_places")
    /\ \E ok \in BOOLEAN :
          IF ok
            THEN \E v \in SelectAll("places") : Return(t, "Ok", JsonVec(v))
            ELSE Return(t, "Err", InternalServerError)
    /\ UNCHANGED << tables, seq, issued >>

\* Places: Fetch by id.
get_place(t) ==
    /\ Pending(t, "get_place")
    /\ LET id == task[t].req.id IN
       \E ok \in BOOLEAN :
          IF ok
            THEN LET result == FetchOptional(SelectById("places", id)) IN
                 IF result # None
                   THEN Return(t, "Ok", GetSuccess(result[1]))
                   ELSE Return(t, "Ok", NotFound("place", id))
            ELSE Return(t, "Err", InternalServerError)
    /\ UNCHANGED << tables, seq, issued >>

\* Places: Create new.
new_place(t) ==
    /\ Pending(t, "new_place")
    /\ LET place == task[t].req.body[1] IN
       \E ok \in BOOLEAN :
          IF ok /\ seq["places"] < MaxId
            THEN LET record == PlaceRecord(nextval("places"), place) IN
                 /\ Insert("places", record)
                 /\ Return(t, "Ok", JsonId(record.id))
            ELSE /\ FailedInsert("places")
                 /\ Return(t, "Err", InternalServerError)
    /\ UNCHANGED issued

\* delete_place as two statements: a SELECT that decides the response, then
\* the DELETE.
delete_place_TwoStatements(t) ==
    /\ LET id == task[t].req.id IN
       \/ /\ Pending(t, "delete_place")
          /\ task' = [task EXCEPT ![t] =
                         [pc |-> "selected", req |-> @.req,
                          res |-> IF SelectById("places", id) # {} THEN "Some" ELSE "None",
                          resp |-> NoResp]]
          /\ UNCHANGED tables
       \/ /\ task[t].pc = "selected" /\ task[t].req.op = "delete_place"
          /\ tables' = [tables EXCEPT !["places"] = DeleteById("places", id)]
          /\ IF task[t].res = "Some"
               THEN Return(t, "Ok", JsonId(id))
               ELSE Return(t, "Ok", NotFound("place", id))
    /\ UNCHANGED << seq, issued >>

\* Places: Delete with id.
delete_place(t) ==
    /\ Pending(t, "delete_place")
    /\ LET id == task[t].req.id IN
       \E ok \in BOOLEAN :
          IF ok
            THEN LET result == FetchOptional(DeleteReturning("places", id)) IN
                 /\ tables' = [tables EXCEPT !["places"] = DeleteById("places", id)]
                 /\ IF result # None
                      THEN Return(t, "Ok", JsonId(id))
                      ELSE Return(t, "Ok", NotFound("place", id))
            ELSE /\ UNCHANGED tables
                 /\ Return(t, "Err", InternalServerError)
    /\ UNCHANGED << seq, issued >>

\* Spaces: Fetch all; an error is mapped to InternalServerError.
get_spaces(t) ==
    /\ Pending(t, "get_spaces")
    /\ \E ok \in BOOLEAN :
          IF ok
            THEN \E v \in SelectAll("spaces") : Return(t, "Ok", JsonVec(v))
            ELSE Return(t, "Err", InternalServerError)
    /\ UNCHANGED << tables, seq, issued >>

\* Spaces: Fetch by id.
get_space(t) ==
    /\ Pending(t, "get_space")
    /\ LET id == task[t].req.id IN
       \E ok \in BOOLEAN :
          IF ok
            THEN LET result == FetchOptional(SelectById("spaces", id)) IN
                 IF result # None
                   THEN Return(t, "Ok", GetSuccess(result[1]))
                   ELSE Return(t, "Ok", NotFound("space", id))
            ELSE Return(t, "Err", InternalServerError)
    /\ UNCHANGED << tables, seq, issued >>

\* Spaces: Create new.
new_space(t) ==
    /\ Pending(t, "new_space")
    /\ LET space == task[t].req.body[1] IN
       \E ok \in BOOLEAN :
          IF ok /\ seq["spaces"] < MaxId
            THEN LET record == SpaceRecord(nextval("spaces"), space) IN
                 /\ Insert("spaces", record)
                 /\ Return(t, "Ok", JsonId(record.id))
            ELSE /\ FailedInsert("spaces")
                 /\ Return(t, "Err", InternalServerError)
    /\ UNCHANGED issued

\* delete_space whose statement only selects the id: it answers as the
\* delete does and removes nothing.
delete_space_SelectOnly(t) ==
    /\ Pending(t, "delete_space")
    /\ LET id == task[t].req.id IN
       \E ok \in BOOLEAN :
          IF ok
            THEN LET result == FetchOptional(DeleteReturning("spaces", id)) IN
                 IF result # None
                   THEN Return(t, "Ok", JsonId(id))
                   ELSE Return(t, "Ok", NotFound("space", id))
            ELSE Return(t, "Err", InternalServerError)
    /\ UNCHANGED << tables, seq, issued >>

\* Spaces: Delete with id.
delete_space(t) ==
    /\ Pending(t, "delete_space")
    /\ LET id == task[t].req.id IN
       \E ok \in BOOLEAN :
          IF ok
            THEN LET result == FetchOptional(DeleteReturning("spaces", id)) IN
                 /\ tables' = [tables EXCEPT !["spaces"] = DeleteById("spaces", id)]
                 /\ IF result # None
                      THEN Return(t, "Ok", JsonId(id))
                      ELSE Return(t, "Ok", NotFound("space", id))
            ELSE /\ UNCHANGED tables
                 /\ Return(t, "Err", InternalServerError)
    /\ UNCHANGED << seq, issued >>

\* Stock Items: Fetch all; an error is mapped to InternalServerError.
get_stock_items(t) ==
    /\ Pending(t, "get_stock_items")
    /\ \E ok \in BOOLEAN :
          IF ok
            THEN \E v \in SelectAll("stock_items") : Return(t, "Ok", JsonVec(v))
            ELSE Return(t, "Err", InternalServerError)
    /\ UNCHANGED << tables, seq, issued >>

\* Stock Items: Fetch by id.
get_stock_item(t) ==
    /\ Pending(t, "get_stock_item")
    /\ LET id == task[t].req.id IN
       \E ok \in BOOLEAN :
          IF ok
            THEN LET result == FetchOptional(SelectById("stock_items", id)) IN
                 IF result # None
                   THEN Return(t, "Ok", GetSuccess(result[1]))
                   ELSE Return(t, "Ok", NotFound("stock item", id))
            ELSE Return(t, "Err", InternalServerError)
    /\ UNCHANGED << tables, seq, issued >>

\* new_stock_item that checks its body before the INSERT and answers 400.
new_stock_item_Validated(t) ==
    /\ Pending(t, "new_stock_item")
    /\ LET item == task[t].req.body[1] IN
       IF SelectById("products", item.product_id) = {} \/ item.stock_quantity <= 0
         THEN /\ Return(t, "none", [InternalServerError EXCEPT !.status = 400])
              /\ UNCHANGED << tables, seq >>
         ELSE \E ok \in BOOLEAN :
                IF ok /\ seq["stock_items"] < MaxId
                  THEN LET record == StockItemRecord(nextval("stock_items"), item) IN
                       /\ Insert("stock_items", record)
                       /\ Return(t, "Ok", JsonId(record.id))
                  ELSE /\ FailedInsert("stock_items")
                       /\ Return(t, "Err", InternalServerError)
    /\ UNCHANGED issued

\* Stock Items: Create new.
new_stock_item(t) ==
    /\ Pending(t, "new_stock_item")
    /\ LET item == task[t].req.body[1] IN
       \E ok \in BOOLEAN :
          IF ok /\ seq["stock_items"] < MaxId
            THEN LET record == StockItemRecord(nextval("stock_items"), item) IN
                 /\ Insert("stock_items", record)
                 /\ Return(t, "Ok", JsonId(record.id))
            ELSE /\ FailedInsert("stock_items")
                 /\ Return(t, "Err", InternalServerError)
    /\ UNCHANGED issued

\* Stock Items: Delete with id.
delete_stock_item(t) ==
    /\ Pending(t, "delete_stock_item")
    /\ LET id == task[t].req.id IN
       \E ok \in BOOLEAN :
          IF ok
            THEN LET result == FetchOptional(DeleteReturning("stock_items", id)) IN
                 /\ tables' = [tables EXCEPT !["stock_items"] = DeleteById("stock_items", id)]
                 /\ IF result # None
                      THEN Return(t, "Ok", JsonId(id))
                      ELSE Return(t, "Ok", NotFound("stock item", id))
            ELSE /\ UNCHANGED tables
                 /\ Return(t, "Err", InternalServerError)
    /\ UNCHANGED << seq, issued >>

----------------------------------------------------------------------------
Next ==
    \E t \in Tasks :
       \/ Call(t)
       \/ get_products(t)
       \/ get_product(t)
       \/ new_product(t)
       \/ delete_product(t)
       \/ get_units(t)
       \/ get_unit(t)
       \/ new_unit(t)
       \/ delete_unit(t)
       \/ get_unit_conversions(t)
       \/ get_unit_conversion(t)
       \/ new_unit_conversion(t)
       \/ delete_unit_conversion(t)
       \/ get_places(t)
       \/ get_place(t)
       \/ new_place(t)
       \/ delete_place(t)
       \/ get_spaces(t)
       \/ get_space(t)
       \/ new_space(t)
       \/ delete_space(t)
       \/ get_stock_items(t)
       \/ get_stock_item(t)
       \/ new_stock_item(t)
       \/ delete_stock_item(t)

Spec == Init /\ [][Next]_vars

----------------------------------------------------------------------------
(* Properties.                                                              *)

GetAllOps == { GetAllOp[e] : e \in Entities }
GetOps == { GetOp[e] : e \in Entities }
NewOps == { NewOp[e] : e \in Entities }
DeleteOps == { DeleteOp[e] : e \in Entities }

\* The handler serving connection t runs in this step.
Ran(t) == task[t].pc = "pending" /\ task'[t].pc \in {"done", "panicked"}

\* The rows of table e with id i.
RowsWithId(e, i) == { r \in tables[e] : r.id = i }

\* C1: a delete-by-id whose statement succeeds removes exactly the row with
\* the requested id, leaves every other row of the table as it was and answers
\* 200 with the requested id; with no such row it answers 404 and the table
\* is unchanged.
C1_DeleteById ==
    [][\A t \in Tasks :
          (Ran(t) /\ task[t].req.op \in DeleteOps /\ task'[t].res = "Ok") =>
             LET e == task[t].req.e
                 id == task[t].req.id
             IN  IF RowsWithId(e, id) # {}
                   THEN /\ Cardinality(RowsWithId(e, id)) = 1
                        /\ tables'[e] = tables[e] \ RowsWithId(e, id)
                        /\ task'[t].resp.status = 200
                        /\ task'[t].resp.id = Some(id)
                   ELSE /\ task'[t].resp.status = 404
                        /\ tables'[e] = tables[e]]_vars

\* A delete answered 200 with the requested id and another row is still in the table.
C1_Witness ==
    \E t \in Tasks :
       /\ task[t].pc = "done"
       /\ task[t].req.op \in DeleteOps
       /\ task[t].resp.status = 200
       /\ task[t].resp.id = Some(task[t].req.id)
       /\ tables[task[t].req.e] # {}

\* C2: a get-by-id whose statement succeeds answers 200 with the stored row
\* of the requested id exactly when the table holds such a row at that time,
\* and 404 otherwise; no table changes.
C2_GetById ==
    [][\A t \in Tasks :
          (Ran(t) /\ task[t].req.op \in GetOps /\ task'[t].res = "Ok") =>
             LET e == task[t].req.e
                 id == task[t].req.id
             IN  /\ IF RowsWithId(e, id) # {}
                      THEN /\ task'[t].resp.status = 200
                           /\ \E r \in RowsWithId(e, id) : task'[t].resp.item = Some(r)
                      ELSE /\ task'[t].resp.status = 404
                           /\ task'[t].resp.item = None
                 /\ tables' = tables]_vars

\* A get answered 200 with a row of the requested id while another row is in the table.
C2_Witness ==
    \E t \in Tasks :
       /\ task[t].pc = "done"
       /\ task[t].req.op \in GetOps
       /\ task[t].resp.status = 200
       /\ task[t].resp.item # None
       /\ task[t].resp.item[1].id = task[t].req.id
       /\ Cardinality(tables[task[t].req.e]) = 2

\* C3: a successful create adds exactly one row to its table, leaves the rows
\* that were there unchanged and returns the id of the new row; the id is the
\* one the database assigns (whatever id the body carries) and identified no
\* row of the table before.
C3_Create ==
    [][\A t \in Tasks :
          (Ran(t) /\ task[t].req.op \in NewOps /\ task'[t].res = "Ok") =>
             LET e == task[t].req.e
                 new == tables'[e] \ tables[e]
             IN  /\ tables[e] \subseteq tables'[e]
                 /\ Cardinality(new) = 1
                 /\ task'[t].resp.status = 200
                 /\ \A r \in new :
                       /\ task'[t].resp.id = Some(r.id)
                       /\ r.id = nextval(e)
                       /\ RowsWithId(e, r.id) = {}]_vars

\* A create returned an id that differs from the id of its body, and the
\* table holds the new row and an older one.
C3_Witness ==
    \E t \in Tasks :
       /\ task[t].pc = "done"
       /\ task[t].req.op \in NewOps
       /\ task[t].resp.status = 200
       /\ task[t].resp.id # Some(task[t].req.body[1].id)
       /\ \E r \in tables[task[t].req.e] : task[t].resp.id = Some(r.id)
       /\ Cardinality(tables[task[t].req.e]) = 2

\* C4: a fetch-all whose statement succeeds returns exactly the rows of its
\* table at that time, each once, and changes no table.
C4_FetchAll ==
    [][\A t \in Tasks :
          (Ran(t) /\ task[t].req.op \in GetAllOps /\ task'[t].res = "Ok") =>
             LET e == task[t].req.e
                 v == task'[t].resp.vec
             IN  /\ task'[t].resp.status = 200
                 /\ Len(v) = Cardinality(tables[e])
                 /\ { v[i] : i \in 1..Len(v) } = tables[e]
                 /\ tables' = tables]_vars

\* A fetch-all returned two rows.
C4_Witness ==
    \E t \in Tasks :
       /\ task[t].pc = "done"
       /\ task[t].req.op \in GetAllOps
       /\ task[t].resp.status = 200
       /\ Len(task[t].resp.vec) = 2

\* The rows of other records that reference row id of table e:
\* << table, row >> pairs.
Referencing(e, id) ==
    CASE e = "products" ->
           { << "stock_items", r >> : r \in { x \in tables["stock_items"] : x.product_id = id } }
           \cup { << "products", r >> :
                    r \in { x \in tables["products"] : x.parent_product_id = Some(id) } }
      [] e = "units" ->
           { << "unit_conversions", r >> :
                r \in { x \in tables["unit_conversions"] :
                           x.from_unit_id = id \/ x.to_unit_id = id } }
           \cup { << "products", r >> :
                    r \in { x \in tables["products"] :
                               x.purchase_unit_id = Some(id) \/ x.stock_unit_id = Some(id) } }
      [] e = "spaces" ->
           { << "stock_items", r >> : r \in { x \in tables["stock_items"] : x.space_id = id } }
      [] OTHER -> {}

\* C5: a handler changes no table but the one of its entity; a delete of a
\* product, unit or space leaves the rows that reference its id in place and
\* unchanged, and when its statement succeeds on an existing row it answers
\* 200 whether or not such rows exist.
C5_Frame ==
    [][\A t \in Tasks :
          Ran(t) =>
             LET e == task[t].req.e
                 id == task[t].req.id
             IN  /\ \A e2 \in Entities \ {e} : tables'[e2] = tables[e2]
                 /\ task[t].req.op \in DeleteOps =>
                       /\ \A ref \in Referencing(e, id) :
                             ref[2].id # id \/ ref[1] # e => ref[2] \in tables'[ref[1]]
                       /\ (task'[t].res = "Ok" /\ RowsWithId(e, id) # {}) =>
                             task'[t].resp.status = 200]_vars

\* A product was deleted with 200 and a stock item that references it is
\* still in its table.
C5_Witness ==
    \E t \in Tasks :
       /\ task[t].pc = "done"
       /\ task[t].req.op = "delete_product"
       /\ task[t].resp.status = 200
       /\ RowsWithId("products", task[t].req.id) = {}
       /\ \E r \in tables["stock_items"] : r.product_id = task[t].req.id

\* C6: no step changes the stock_quantity of a stock item that exists, and a
\* stock item that appears was produced by new_stock_item in that step and
\* holds the stock_quantity of that request.
C6_StockQuantity ==
    [][\A r \in tables'["stock_items"] :
          \/ \E o \in tables["stock_items"] :
                o.id = r.id /\ o.stock_quantity = r.stock_quantity
          \/ \E t \in Tasks :
                /\ Ran(t)
                /\ task[t].req.op = "new_stock_item"
                /\ task'[t].resp.id = Some(r.id)
                /\ r.stock_quantity = task[t].req.body[1].stock_quantity]_vars

\* A new_stock_item answered 200 and the row it produced holds the submitted
\* stock_quantity next to an older stock item.
C6_Witness ==
    \E t \in Tasks :
       /\ task[t].pc = "done"
       /\ task[t].req.op = "new_stock_item"
       /\ task[t].resp.status = 200
       /\ \E r \in tables["stock_items"] :
             /\ task[t].resp.id = Some(r.id)
             /\ r.stock_quantity = task[t].req.body[1].stock_quantity
       /\ Cardinality(tables["stock_items"]) = 2

\* The fields of a create body that reference other rows or carry a quantity.
Unvalidated(op) ==
    CASE op = "new_stock_item" -> {"product_id", "space_id", "stock_quantity"}
      [] op = "new_unit_conversion" -> {"from_unit_id", "to_unit_id", "factor"}
      [] op = "new_product" ->
           {"parent_product_id", "purchase_unit_id", "stock_unit_id",
            "purchase_to_stock_factor"}

\* C7: new_stock_item, new_unit_conversion and new_product always issue their
\* INSERT (they answer with its id or with the error of the statement, never
\* with a rejection of their own), and the row stored holds the referenced
\* ids, stock_quantity and factor of the body unchanged.
C7_NoValidation ==
    [][\A t \in Tasks :
          (Ran(t) /\ task[t].req.op \in {"new_stock_item", "new_unit_conversion", "new_product"}) =>
             LET e == task[t].req.e
                 body == task[t].req.body[1]
             IN  /\ task'[t].res \in {"Ok", "Err"}
                 /\ task'[t].res = "Err" => task'[t].resp.status = 500
                 /\ task'[t].res = "Ok" =>
                       /\ task'[t].resp.status = 200
                       /\ \E r \in tables'[e] :
                             /\ task'[t].resp.id = Some(r.id)
                             /\ \A f \in Unvalidated(task[t].req.op) : r[f] = body[f]]_vars

\* A stock item with a stock_quantity below zero that references a product
\* that does not exist was stored by a new_stock_item answered 200.
C7_Witness ==
    \E t \in Tasks :
       /\ task[t].pc = "done"
       /\ task[t].req.op = "new_stock_item"
       /\ task[t].resp.status = 200
       /\ \E r \in tables["stock_items"] :
             /\ task[t].resp.id = Some(r.id)
             /\ r.stock_quantity < 0
             /\ RowsWithId("products", r.product_id) = {}

\* Connections t and u serve the same delete request.
SameDelete(t, u) ==
    /\ t # u
    /\ task[t].req.op \in DeleteOps
    /\ task[u].req = task[t].req

C9_ErrorIs500 ==
    \A t \in Tasks :
       task[t].res = "Err" => (task[t].pc = "done" /\ task[t].resp.status = 500)

\* C10: after a create answered 200 with id i, a get-by-id for i that runs
\* while row i exists answers 200 with a record whose id is i and whose every
\* other field is the one of the create's body.
C10_CreateGetRoundTrip ==
    [][\A t, u \in Tasks :
          ( /\ t # u
            /\ task[t].pc = "done"
            /\ task[t].req.op \in NewOps
            /\ task[t].resp.status = 200
            /\ Ran(u)
            /\ task[u].req.op = GetOp[task[t].req.e]
            /\ task[t].resp.id = Some(task[u].req.id)
            /\ RowsWithId(task[u].req.e, task[u].req.id) # {}
            /\ task'[u].res = "Ok" ) =>
             LET body == task[t].req.body[1] IN
             /\ task'[u].resp.status = 200
             /\ task'[u].resp.item # None
             /\ task'[u].resp.item[1].id = task[u].req.id
             /\ \A f \in DOMAIN body \ {"id"} : task'[u].resp.item[1][f] = body[f]]_vars

\* Connection t holds the 200 answer of a delete.
Deleted(t) ==
    /\ task[t].pc = "done"
    /\ task[t].req.op \in DeleteOps
    /\ task[t].resp.status = 200

\* C11: once a delete of id i of an entity has answered 200, a later
\* get-by-id or delete-by-id for i on that entity whose statement succeeds
\* answers 404, a later fetch-all returns no record with id i, and the later
\* delete changes no table.  (No create returns i again: the ids of a table
\* only grow.)
C11_DeleteIsFinal ==
    [][\A u \in Tasks :
          Ran(u) =>
             \A t \in Tasks \ {u} :
                (Deleted(t) /\ task[u].req.e = task[t].req.e /\ task'[u].res = "Ok") =>
                   LET e == task[t].req.e
                       i == task[t].req.id
                   IN  /\ (task[u].req.op \in {GetOp[e], DeleteOp[e]} /\ task[u].req.id = i) =>
                             /\ task'[u].resp.status = 404
                             /\ task'[u].resp.item = None
                             /\ task'[u].resp.id = None
                       /\ (task[u].req.op = DeleteOp[e] /\ task[u].req.id = i) =>
                             tables' = tables
                       /\ task[u].req.op = GetAllOp[e] =>
                             \A k \in 1..Len(task'[u].resp.vec) :
                                task'[u].resp.vec[k].id # i
                       /\ task[u].req.op = NewOp[e] => task'[u].resp.id # Some(i)]_vars

\* A delete of id i answered 200 and a get-by-id for i on the same entity,
\* answered after it, got 404.
C11_Witness ==
    \E t, u \in Tasks :
       /\ t # u
       /\ Deleted(t)
       /\ task[u].pc = "done"
       /\ task[u].req.op = GetOp[task[t].req.e]
       /\ task[u].req.id = task[t].req.id
       /\ task[u].resp.status = 404

====
